---- MODULE Spec2Model ----
(***************************************************************************)
(* Model of sandboxed-tor-browser's two core subsystems:                   *)
(*   - the seccomp whitelist compiler  (sandbox/seccomp.go,                *)
(*     installTBLOzWhitelist), specification Spec;                         *)
(*   - the ld.so.cache reader          (dynlib/cache.go, getNewLdCache and *)
(*     LoadCache), specification SpecCache;                                *)
(*   - the library dependency resolver (dynlib/cache.go,                   *)
(*     Cache.ResolveLibraries), specification SpecResolve.                 *)
(* Text is modelled as sequences of atoms: punctuation and white space are *)
(* single bytes, an identifier is one atom, a number is a run of digits.   *)
(***************************************************************************)
EXTENDS Integers, Sequences, FiniteSets, TLC

VARIABLES
    \* ---- installTBLOzWhitelist
    canUseConditionals, \* runtime.GOARCH == "amd64"
    lines,              \* bytes.Split(b, '\n') of the rule set
    ln,                 \* index (1-based) of the line the loop is at
    constantTable,      \* map[string]uint64
    rules,              \* the rules added to the filter f, in order
    status,             \* "parsing" | "exported" | "error" | "panic"
    err,                \* which fmt.Errorf the function returned
    \* ---- installBasicBlacklist
    goarch,             \* runtime.GOARCH
    nativeSyscalls,     \* the names seccomp.GetSyscallFromName resolves
    blDefault,          \* the default action of seccomp.NewFilter
    blRules,            \* the rules added to the filter f, in order
    blIdx,              \* index (1-based) into syscallBlacklist
    blStatus,           \* "adding" | "exported" | "error"
    blErr,              \* the name GetSyscallFromName failed on
    \* ---- LoadCache
    file,               \* the bytes of /etc/ld.so.cache (ioutil.ReadFile)
    cpc,                \* the step LoadCache is at: "old" | "new" | "libs" | "done"
    stringTable,        \* the new-format part, as getNewLdCache returned it
    rawLibs,            \* the new-format entry array
    nlibs,              \* the new header's entry count
    libIdx,             \* i of the libs[] loop
    store,              \* Cache.store: name -> list of cacheEntry
    cstatus,            \* "loading" | "ok" | "error" | "panic"
    cerr,               \* the error or fault LoadCache ended with
    \* ---- Cache.ResolveLibraries (the cache is store)
    binaries,           \* argument: the starting binaries
    extraLibsArg,       \* argument: extraLibs as passed ("nil" or a list)
    elfImports,         \* GetLibraries: file -> [ok, libs]
    fsFiles,            \* utils.FileExists: the files of the search path dirs
    fsLinks,            \* filepath.EvalSymlinks: path -> [ok, path]
    searchPaths,        \* filepath.SplitList(ldLibraryPath)
    extraLibs,          \* the local extraLibs: set to nil once appended
    libraries,          \* map[string]string: name -> path
    checkedFile,        \* map[string]bool, as the set of its keys
    checkedLib,         \* map[string]bool, as the set of its keys
    toCheck,            \* the files of the current level
    pos,                \* index (1-based) into toCheck
    newToCheck,         \* map[string]bool: the files of the next level
    ret,                \* map[string][]string: canonical path -> aliases
    rstatus,            \* "resolving" | "dedup" | "ok" | "error"
    rerr,               \* the error returned
    scanCount,          \* calls of GetLibraries made so far, per file
    cacheLookups        \* the names c.GetLibraryPath was called with so far

seccompVars == <<canUseConditionals, lines, ln, constantTable, rules, status, err>>

cacheVars == <<file, cpc, stringTable, rawLibs, nlibs, libIdx, store, cstatus, cerr>>

resolveVars ==
    <<binaries, extraLibsArg, elfImports, fsFiles, fsLinks, searchPaths, extraLibs,
      libraries, checkedFile, checkedLib, toCheck, pos, newToCheck, ret, rstatus,
      rerr, scanCount, cacheLookups>>

blacklistVars == <<goarch, nativeSyscalls, blDefault, blRules, blIdx, blStatus, blErr>>

vars == <<seccompVars, blacklistVars, cacheVars, resolveVars>>

otherThanSeccomp == <<blacklistVars, cacheVars, resolveVars>>
otherThanBlacklist == <<seccompVars, cacheVars, resolveVars>>
otherThanCache == <<seccompVars, blacklistVars, resolveVars>>
otherThanResolve == <<seccompVars, blacklistVars, cacheVars>>

\* the compiler is not running
SeccompIdle ==
    /\ canUseConditionals = FALSE /\ lines = <<>> /\ ln = 0 /\ constantTable = <<>>
    /\ rules = <<>> /\ status = "idle" /\ err = ""

\* the blacklist compiler is not running
BlacklistIdle ==
    /\ goarch = "" /\ nativeSyscalls = {} /\ blDefault = "" /\ blRules = <<>>
    /\ blIdx = 0 /\ blStatus = "idle" /\ blErr = ""

\* the resolver is not running
ResolveIdle ==
    /\ binaries = <<>> /\ extraLibsArg = <<>> /\ elfImports = <<>> /\ fsFiles = {}
    /\ fsLinks = <<>> /\ searchPaths = <<>> /\ extraLibs = <<>> /\ libraries = <<>>
    /\ checkedFile = {} /\ checkedLib = {} /\ toCheck = <<>> /\ pos = 0
    /\ newToCheck = {} /\ ret = <<>> /\ rstatus = "idle" /\ rerr = ""
    /\ scanCount = <<>> /\ cacheLookups = {}

\* the cache reader is not running
CacheIdle ==
    /\ file = <<>> /\ cpc = "idle" /\ stringTable = <<>> /\ rawLibs = <<>>
    /\ nlibs = 0 /\ libIdx = 0 /\ store = <<>> /\ cstatus = "idle" /\ cerr = ""

(***************************************************************************)
(* Byte-string helpers (package bytes / strconv as the compiler uses them) *)
(***************************************************************************)
NL == "\n"
SP == " "

Range(s) == {s[i] : i \in 1..Len(s)}

RECURSIVE IndexFrom(_, _, _)
\* position of the first instance of sep in s at or after i, 0 when absent
IndexFrom(s, sep, i) ==
    IF i + Len(sep) - 1 > Len(s) THEN 0
    ELSE IF SubSeq(s, i, i + Len(sep) - 1) = sep THEN i
    ELSE IndexFrom(s, sep, i + 1)

\* bytes.IndexByte(l, c) != -1
IndexByte(s, c) == IndexFrom(s, <<c>>, 1)

RECURSIVE Split(_, _)
\* bytes.Split: s cut at every non-overlapping instance of sep, left to right
Split(s, sep) ==
    LET i == IndexFrom(s, sep, 1)
    IN  IF i = 0 THEN <<s>>
        ELSE <<SubSeq(s, 1, i - 1)>> \o Split(SubSeq(s, i + Len(sep), Len(s)), sep)

\* bytes.SplitN(s, sep, 2): cut at the first instance of sep only
SplitN2(s, sep) ==
    LET i == IndexFrom(s, sep, 1)
    IN  IF i = 0 THEN <<s>>
        ELSE <<SubSeq(s, 1, i - 1), SubSeq(s, i + Len(sep), Len(s))>>

RECURSIVE TrimLeft(_)
TrimLeft(s) == IF s # <<>> /\ Head(s) = SP THEN TrimLeft(Tail(s)) ELSE s

RECURSIVE TrimRight(_)
TrimRight(s) ==
    IF s # <<>> /\ s[Len(s)] = SP THEN TrimRight(SubSeq(s, 1, Len(s) - 1)) ELSE s

\* bytes.TrimSpace
TrimSpace(s) == TrimRight(TrimLeft(s))

Digits == {"0", "1", "2", "3", "4", "5", "6", "7", "8", "9"}

DigitVal(d) ==
    CASE d = "0" -> 0 [] d = "1" -> 1 [] d = "2" -> 2 [] d = "3" -> 3
      [] d = "4" -> 4 [] d = "5" -> 5 [] d = "6" -> 6 [] d = "7" -> 7
      [] d = "8" -> 8 [] d = "9" -> 9

RECURSIVE DigitsVal(_, _, _)
DigitsVal(s, base, acc) ==
    IF s = <<>> THEN acc ELSE DigitsVal(Tail(s), base, acc * base + DigitVal(Head(s)))

\* strconv.ParseUint(s, 0, 64): base 0 reads a leading "0" as octal.  The
\* tokens of the model are at most a few digits long, far below 2^64.
ParseUint(s) ==
    IF s = <<>> \/ \E i \in 1..Len(s) : s[i] \notin Digits
    THEN [ok |-> FALSE, val |-> 0]
    ELSE IF Len(s) > 1 /\ s[1] = "0"
    THEN IF \E i \in 1..Len(s) : DigitVal(s[i]) > 7
         THEN [ok |-> FALSE, val |-> 0]
         ELSE [ok |-> TRUE, val |-> DigitsVal(s, 8, 0)]
    ELSE [ok |-> TRUE, val |-> DigitsVal(s, 10, 0)]

(***************************************************************************)
(* libseccomp as the compiler uses it                                      *)
(***************************************************************************)
\* seccomp.GetSyscallFromName: the names the native architecture knows
SyscallNr ==
    (<<"read">> :> 0) @@ (<<"futex">> :> 202)

GetSyscallFromName(name) ==
    IF name \in DOMAIN SyscallNr
    THEN [ok |-> TRUE, nr |-> SyscallNr[name]]
    ELSE [ok |-> FALSE, nr |-> 0]

\* seccomp.MakeCondition(arg, seccomp.CompareEqual, val)
MakeCondition(arg, val) == [arg |-> arg, val |-> val]

\* A rule of the filter: f.AddRule gives no conditions,
\* f.AddRuleConditionalExact gives the conditions of scConds; the filter
\* takes a rule when every one of its conditions holds.
RuleMatches(rule, nr, args) ==
    /\ rule.scall = nr
    /\ \A i \in 1..Len(rule.conds) : args[rule.conds[i].arg] = rule.conds[i].val

\* The loaded filter's verdict: ActAllow when a rule matches, otherwise the
\* default action of seccomp.NewFilter(actEPerm).
FilterAction(rs, nr, args) ==
    IF \E i \in 1..Len(rs) : RuleMatches(rs[i], nr, args) THEN "ALLOW" ELSE "ERRNO"

(***************************************************************************)
(* installTBLOzWhitelist                                                   *)
(***************************************************************************)
InitialConstantTable ==
    (<<"PR_SET_NAME">> :> 15) @@ (<<"PR_GET_NAME">> :> 16) @@
    (<<"PR_GET_TIMERSLACK">> :> 30) @@ (<<"PR_SET_SECCOMP">> :> 22) @@
    (<<"AF_UNIX">> :> 1) @@ (<<"AF_INET">> :> 2) @@
    (<<"AF_INET6">> :> 10) @@ (<<"AF_NETLINK">> :> 16)

\* argConds := make([][]uint64, 5)
ArgCondsLen == 5

NewArgConds == [i \in 1..ArgCondsLen |-> <<>>]

\* switch arg { case "arg0": ... case "arg5": ... default: error }
ArgIndex(arg) ==
    CASE arg = <<"arg0">> -> 0 [] arg = <<"arg1">> -> 1 [] arg = <<"arg2">> -> 2
      [] arg = <<"arg3">> -> 3 [] arg = <<"arg4">> -> 4 [] arg = <<"arg5">> -> 5
      [] OTHER -> -1

\* val, ok := constantTable[rawVal]; if !ok { val, err = strconv.ParseUint }
ResolveValue(rawVal, table) ==
    IF rawVal \in DOMAIN table
    THEN [ok |-> TRUE, val |-> table[rawVal]]
    ELSE ParseUint(rawVal)

CondFail(kind, e) == [kind |-> kind, err |-> e, argConds |-> <<>>]

RECURSIVE ParseConds(_, _, _, _)
\* for _, v := range conds { ... argConds[argN] = append(argConds[argN], val) }
ParseConds(conds, i, table, argConds) ==
    IF i > Len(conds) THEN [kind |-> "ok", err |-> "", argConds |-> argConds]
    ELSE
      LET spCond == Split(TrimSpace(conds[i]), <<"=", "=">>)
      IN  IF Len(spCond) # 2 THEN CondFail("error", "invalid condition")
          ELSE
            LET argN == ArgIndex(TrimSpace(spCond[1]))
                val  == ResolveValue(TrimSpace(spCond[2]), table)
            IN  IF argN = -1 THEN CondFail("error", "invalid argument")
                ELSE IF ~val.ok THEN CondFail("error", "invalid value")
                ELSE IF argN + 1 > Len(argConds)
                THEN CondFail("panic", "index out of range")
                ELSE ParseConds(conds, i + 1, table,
                                [argConds EXCEPT ![argN + 1] = Append(@, val.val)])

RECURSIVE ValsToConds(_, _)
ValsToConds(arg, vals) ==
    IF vals = <<>> THEN <<>>
    ELSE <<MakeCondition(arg, Head(vals))>> \o ValsToConds(arg, Tail(vals))

RECURSIVE FlattenConds(_, _)
\* for arg, vals := range argConds { for _, val := range vals { scConds = append } }
FlattenConds(argConds, i) ==
    IF i > Len(argConds) THEN <<>>
    ELSE ValsToConds(i - 1, argConds[i]) \o FlattenConds(argConds, i + 1)

\* The rule branch with an unresolvable system call name returned as an error
\* instead of skipped.
CompileRuleUnknownFatal(l, table, cond) ==
    LET sp == SplitN2(l, <<":">>)
    IN  IF Len(sp) # 2 THEN [kind |-> "error", err |-> "invalid rule", rule |-> <<>>]
        ELSE
          LET scall == GetSyscallFromName(TrimSpace(sp[1]))
              rawCond == TrimSpace(sp[2])
              conds == Split(rawCond, <<"|", "|">>)
              parsed == ParseConds(conds, 1, table, NewArgConds)
          IN  IF ~scall.ok THEN [kind |-> "error", err |-> "unknown system call", rule |-> <<>>]
              ELSE IF ~cond \/ rawCond = <<"1">>
              THEN [kind |-> "rule", err |-> "",
                    rule |-> [scall |-> scall.nr, conds |-> <<>>]]
              ELSE IF Len(conds) < 1
              THEN [kind |-> "error", err |-> "invalid rule", rule |-> <<>>]
              ELSE IF parsed.kind # "ok"
              THEN [kind |-> parsed.kind, err |-> parsed.err, rule |-> <<>>]
              ELSE [kind |-> "rule", err |-> "",
                    rule |-> [scall |-> scall.nr,
                              conds |-> FlattenConds(parsed.argConds, 1)]]

\* The rule branch of the loop body for the trimmed line l: what becomes of
\* the filter.  kind: "skip" (unknown system call), "rule", "error", "panic".
CompileRule(l, table, cond) ==
    LET sp == SplitN2(l, <<":">>)
    IN  IF Len(sp) # 2 THEN [kind |-> "error", err |-> "invalid rule", rule |-> <<>>]
        ELSE
          LET scall == GetSyscallFromName(TrimSpace(sp[1]))
              rawCond == TrimSpace(sp[2])
              conds == Split(rawCond, <<"|", "|">>)
              parsed == ParseConds(conds, 1, table, NewArgConds)
          IN  IF ~scall.ok THEN [kind |-> "skip", err |-> "", rule |-> <<>>]
              ELSE IF ~cond \/ rawCond = <<"1">>
              THEN [kind |-> "rule", err |-> "",
                    rule |-> [scall |-> scall.nr, conds |-> <<>>]]
              ELSE IF Len(conds) < 1
              THEN [kind |-> "error", err |-> "invalid rule", rule |-> <<>>]
              ELSE IF parsed.kind # "ok"
              THEN [kind |-> parsed.kind, err |-> parsed.err, rule |-> <<>>]
              ELSE [kind |-> "rule", err |-> "",
                    rule |-> [scall |-> scall.nr,
                              conds |-> FlattenConds(parsed.argConds, 1)]]

\* The declaration branch of the loop body for the trimmed line l.
CompileDecl(l, table) ==
    LET sp == Split(l, <<"=">>)
    IN  IF Len(sp) # 2 THEN [ok |-> FALSE, err |-> "invalid constant", table |-> table]
        ELSE
          LET k == TrimSpace(sp[1])
              v == ParseUint(TrimSpace(sp[2]))
          IN  IF ~v.ok THEN [ok |-> FALSE, err |-> "invalid conditional", table |-> table]
              ELSE [ok |-> TRUE, err |-> "",
                    table |-> [x \in DOMAIN table \cup {k} |->
                                  IF x = k THEN v.val ELSE table[x]]]

\* the line the loop is at, trimmed
CurLine == TrimSpace(lines[ln])

AtLine == status = "parsing" /\ ln <= Len(lines)

IsBlankOrComment(l) == IF Len(l) = 0 THEN TRUE ELSE Head(l) = "#"
IsRule(l) == ~IsBlankOrComment(l) /\ IndexByte(l, ":") # 0
IsDecl(l) == ~IsBlankOrComment(l) /\ IndexByte(l, ":") = 0 /\ IndexByte(l, "=") # 0

\* if len(l) == 0 { continue }; if bytes.HasPrefix(l, '#') { continue }
SkipLine ==
    /\ AtLine
    /\ IsBlankOrComment(CurLine)
    /\ ln' = ln + 1
    /\ UNCHANGED <<canUseConditionals, lines, constantTable, rules, status, err>>
    /\ UNCHANGED otherThanSeccomp

\* if bytes.IndexByte(l, ':') != -1 { ... }
RuleLine ==
    /\ AtLine
    /\ IsRule(CurLine)
    /\ LET r == CompileRule(CurLine, constantTable, canUseConditionals)
       IN  \/ /\ r.kind = "skip"
              /\ ln' = ln + 1
              /\ UNCHANGED <<rules, status, err>>
           \/ /\ r.kind = "rule"
              /\ rules' = Append(rules, r.rule)
              /\ ln' = ln + 1
              /\ UNCHANGED <<status, err>>
           \/ /\ r.kind \in {"error", "panic"}
              /\ status' = r.kind
              /\ err' = r.err
              /\ UNCHANGED <<rules, ln>>
    /\ UNCHANGED <<canUseConditionals, lines, constantTable>>
    /\ UNCHANGED otherThanSeccomp

\* else if bytes.IndexByte(l, '=') != -1 { ... }
DeclLine ==
    /\ AtLine
    /\ IsDecl(CurLine)
    /\ LET d == CompileDecl(CurLine, constantTable)
       IN  \/ /\ d.ok
              /\ constantTable' = d.table
              /\ ln' = ln + 1
              /\ UNCHANGED <<status, err>>
           \/ /\ ~d.ok
              /\ status' = "error"
              /\ err' = d.err
              /\ UNCHANGED <<constantTable, ln>>
    /\ UNCHANGED <<canUseConditionals, lines, rules>>
    /\ UNCHANGED otherThanSeccomp

\* else { return fmt.Errorf("seccomp: syntax error in profile") }
SyntaxErrorLine ==
    /\ AtLine
    /\ ~IsBlankOrComment(CurLine) /\ ~IsRule(CurLine) /\ ~IsDecl(CurLine)
    /\ status' = "error"
    /\ err' = "syntax error in profile"
    /\ UNCHANGED <<canUseConditionals, lines, ln, constantTable, rules>>
    /\ UNCHANGED otherThanSeccomp

\* return f.ExportBPF(fd)
ExportBPF ==
    /\ status = "parsing"
    /\ ln > Len(lines)
    /\ status' = "exported"
    /\ UNCHANGED <<canUseConditionals, lines, ln, constantTable, rules, err>>
    /\ UNCHANGED otherThanSeccomp

(***************************************************************************)
(* The rule sets the compiler is run on                                    *)
(***************************************************************************)
MaxLines == 3

\* "SYSCALL: argN==V"
ArgLine(sc, n, v) == <<sc, ":", SP, n, "=", "=", v>>
\* "SYSCALL: argN==V1||argN==V2"
OrLine(sc, n, v1, v2) == <<sc, ":", SP, n, "=", "=", v1, "|", "|", n, "=", "=", v2>>
\* "NAME=VALUE"
DeclOf(k, v) == <<k, "=", v>>

ArgNames == {"arg0", "arg1", "arg2", "arg3", "arg4", "arg5"}

ArgNo(n) == ArgIndex(<<n>>)

WellFormedLines ==
    { <<>>, <<"#", SP, "x">>,
      DeclOf("A", "1"), <<"A", SP, "=", SP, "2">>,
      <<"read", ":", SP, "1">>, <<"nosys", ":", SP, "1">>,
      OrLine("futex", "arg1", "1", "2"),
      ArgLine("futex", "arg1", "A"),
      ArgLine("nosys", "arg0", "A") }
    \cup { ArgLine("read", n, "3") : n \in ArgNames }

\* value expressions the rule language of the data files uses
ExprLines ==
    { DeclOf("B", "A"),
      <<"read", ":", SP, "arg0", "=", "=", "AF_UNIX", "|", "AF_INET">> }

MalformedLines ==
    { <<"x">>,                          \* neither ':' nor '='
      <<"A", "=", "1", "=", "2">>,      \* more than one '='
      <<"read", ":", SP, "x">>,         \* clause that is not argN==VALUE
      <<"nosys", ":", SP, "x">>,        \* the same, unknown system call
      ArgLine("read", "arg6", "1"),     \* argument token outside arg0..arg5
      ArgLine("read", "arg0", "x") }    \* value neither constant nor number

LineSet == WellFormedLines \cup ExprLines \cup MalformedLines

RECURSIVE Join(_)
\* the text of a rule set: its lines, each ended by a newline but the last
Join(ls) ==
    IF ls = <<>> THEN <<>>
    ELSE IF Len(ls) = 1 THEN ls[1]
    ELSE ls[1] \o <<NL>> \o Join(Tail(ls))

RuleSets == UNION { [1..n -> LineSet] : n \in 0..MaxLines }

Init ==
    /\ canUseConditionals \in BOOLEAN
    /\ \E ls \in RuleSets : lines = Split(Join(ls), <<NL>>)
    /\ ln = 1
    /\ constantTable = InitialConstantTable
    /\ rules = <<>>
    /\ status = "parsing"
    /\ err = ""
    /\ BlacklistIdle
    /\ CacheIdle
    /\ ResolveIdle

Next ==
    \/ SkipLine
    \/ RuleLine
    \/ DeclLine
    \/ SyntaxErrorLine
    \/ ExportBPF

Spec == Init /\ [][Next]_vars

(***************************************************************************)
(* Claims about the whitelist compiler                                     *)
(***************************************************************************)
\* line i was compiled and the loop went on
Compiled(i) == ln > i
\* the function returned an error, or faulted, at line i
FailedAt(i) == status \in {"error", "panic"} /\ ln = i

\* a system call's six arguments, argument n being v and the others 0
ArgsWith(n, v) == [a \in 0..5 |-> IF a = n THEN v ELSE 0]

HasRule(nr, conds) ==
    \E k \in 1..Len(rules) : rules[k] = [scall |-> nr, conds |-> conds]

RECURSIVE BitOr(_, _)
BitOr(a, b) ==
    IF a = 0 THEN b
    ELSE IF b = 0 THEN a
    ELSE (IF a % 2 = 1 \/ b % 2 = 1 THEN 1 ELSE 0) + 2 * BitOr(a \div 2, b \div 2)

\* C1: on a conditional-capable architecture, a rule `futex: arg1==1||arg1==2`
\* that is the rule set's only futex rule makes the exported filter allow
\* futex exactly when arg1 is 1 or 2, and answer ERRNO for any other arg1.
C1_OrRuleAllowsExactlyListedValues ==
    \A i \in 1..Len(lines) :
        ( /\ canUseConditionals
          /\ status = "exported"
          /\ lines[i] = OrLine("futex", "arg1", "1", "2")
          /\ \A j \in 1..Len(lines) : j # i => (lines[j] = <<>> \/ lines[j][1] # "futex") )
        => \A v \in 0..3 :
              (FilterAction(rules, SyscallNr[<<"futex">>], ArgsWith(1, v)) = "ALLOW")
                  <=> (v \in {1, 2})

\* C2: a rule set with a malformed line is never exported, whatever the
\* architecture and whether or not the line's system call name is known.
C2_MalformedLineNeverExports ==
    status = "exported" => \A i \in 1..Len(lines) : lines[i] \notin MalformedLines

\* C8: for every N in 0..5 the rule `read: argN==3` on a conditional-capable
\* architecture compiles without error or fault into a read rule with the
\* single condition argN == 3.
C8_EveryArgIndexCompiles ==
    \A i \in 1..Len(lines), n \in ArgNames :
        (canUseConditionals /\ lines[i] = ArgLine("read", n, "3"))
        => /\ ~FailedAt(i)
           /\ Compiled(i) => HasRule(SyscallNr[<<"read">>], <<MakeCondition(ArgNo(n), 3)>>)

DeclaresA(l) == l \in {DeclOf("A", "1"), <<"A", SP, "=", SP, "2">>}

\* C9: a value expression may be a declared constant or constants joined by
\* `|`: after `A=..`, the declaration `B=A` is accepted and gives B the value
\* of A; the rule `read: arg0==AF_UNIX|AF_INET` is accepted and requires arg0
\* to be the bitwise OR of the two constants.
C9_ValueExpressionsResolve ==
    \A i \in 1..Len(lines) :
        /\ (lines[i] = DeclOf("B", "A") /\ \E j \in 1..(i - 1) : DeclaresA(lines[j]))
           => /\ ~FailedAt(i)
              /\ (ln = i + 1) =>
                    /\ <<"B">> \in DOMAIN constantTable
                    /\ constantTable[<<"B">>] = constantTable[<<"A">>]
        /\ (canUseConditionals
              /\ lines[i] = <<"read", ":", SP, "arg0", "=", "=", "AF_UNIX", "|", "AF_INET">>)
           => /\ ~FailedAt(i)
              /\ Compiled(i) =>
                    HasRule(SyscallNr[<<"read">>],
                            <<MakeCondition(0, BitOr(InitialConstantTable[<<"AF_UNIX">>],
                                                     InitialConstantTable[<<"AF_INET">>]))>>)

\* the value of the latest declaration of A on a line before i
LatestA(i) ==
    LET j == CHOOSE j \in 1..(i - 1) :
                 DeclaresA(lines[j]) /\ \A k \in (j + 1)..(i - 1) : ~DeclaresA(lines[k])
    IN  IF lines[j] = DeclOf("A", "1") THEN 1 ELSE 2

\* C10: a rule that references A resolves it to the value of the latest
\* declaration of A on an earlier line; with no earlier declaration (A is
\* neither built in nor a number) compilation fails, even when A is declared
\* on a later line.
C10_SinglePassConstantResolution ==
    \A i \in 1..Len(lines) :
        /\ lines[i] = ArgLine("futex", "arg1", "A")
           => IF \E j \in 1..(i - 1) : DeclaresA(lines[j])
              THEN Compiled(i) =>
                      HasRule(SyscallNr[<<"futex">>], <<MakeCondition(1, LatestA(i))>>)
              ELSE ~Compiled(i)
        /\ lines[i] = ArgLine("nosys", "arg0", "A")
           => ((\E j \in 1..(i - 1) : DeclaresA(lines[j])) \/ ~Compiled(i))

RECURSIVE CompileLines(_, _, _, _, _)
\* installTBLOzWhitelist run to its end on the lines ls from line i on, with
\* constant table `table` and the rules rs added so far
CompileLines(ls, i, table, rs, cond) ==
    IF i > Len(ls) THEN [status |-> "exported", rules |-> rs]
    ELSE
      LET l == TrimSpace(ls[i])
          r == CompileRule(l, table, cond)
          d == CompileDecl(l, table)
      IN  IF IsBlankOrComment(l) THEN CompileLines(ls, i + 1, table, rs, cond)
          ELSE IF IsRule(l)
          THEN IF r.kind = "skip" THEN CompileLines(ls, i + 1, table, rs, cond)
               ELSE IF r.kind = "rule"
               THEN CompileLines(ls, i + 1, table, Append(rs, r.rule), cond)
               ELSE [status |-> r.kind, rules |-> <<>>]
          ELSE IF IsDecl(l)
          THEN IF d.ok THEN CompileLines(ls, i + 1, d.table, rs, cond)
               ELSE [status |-> "error", rules |-> <<>>]
          ELSE [status |-> "error", rules |-> <<>>]

\* the rule set without its line i
RemoveLine(ls, i) == SubSeq(ls, 1, i - 1) \o SubSeq(ls, i + 1, Len(ls))

\* a rule line whose system call name is `nosys`, which does not resolve
UnknownNameLine(l) ==
    /\ IsRule(TrimSpace(l))
    /\ TrimSpace(SplitN2(TrimSpace(l), <<":">>)[1]) = <<"nosys">>

\* the rule set with the name of line i known: `read` in the place of `nosys`
WithKnownName(ls, i) == [ls EXCEPT ![i] = <<"read">> \o Tail(ls[i])]

\* the (system call, arguments) pairs a filter is asked about
Calls ==
    {<<nr, ArgsWith(n, v)>> : nr \in {SyscallNr[<<"read">>], SyscallNr[<<"futex">>]},
                              n \in 0..5, v \in 0..3}

Allowed(rs) == {c \in Calls : FilterAction(rs, c[1], c[2]) = "ALLOW"}

\* rule sets with lines whose system call name does not resolve, among lines
\* of every other kind
UnknownNameLineSet ==
    { <<>>, <<"x">>, DeclOf("A", "1"),
      <<"nosys", ":", SP, "1">>, <<"nosys", ":", SP, "x">>,
      ArgLine("nosys", "arg0", "A"),
      <<"read", ":", SP, "1">>, ArgLine("read", "arg0", "3"),
      ArgLine("futex", "arg1", "A") }

InitUnknownNames ==
    /\ canUseConditionals \in BOOLEAN
    /\ \E ls \in UNION { [1..n -> UnknownNameLineSet] : n \in 0..MaxLines } :
          lines = Split(Join(ls), <<NL>>)
    /\ ln = 1
    /\ constantTable = InitialConstantTable
    /\ rules = <<>>
    /\ status = "parsing"
    /\ err = ""
    /\ BlacklistIdle
    /\ CacheIdle
    /\ ResolveIdle

SpecUnknownNames == InitUnknownNames /\ [][Next]_vars

\* C12: a rule line whose system call name does not resolve is dropped and
\* compilation goes on: the run ends as the run on the rule set without that
\* line ends, with the same filter when one is exported, and that filter
\* allows no call that the filter with the name known would not allow.
C12_UnknownSyscallLineIsDropped ==
    \A i \in 1..Len(lines) :
        UnknownNameLine(lines[i]) =>
            /\ ~FailedAt(i)
            /\ status # "parsing" =>
                  LET without == CompileLines(RemoveLine(lines, i), 1,
                                              InitialConstantTable, <<>>, canUseConditionals)
                      known == CompileLines(WithKnownName(lines, i), 1,
                                            InitialConstantTable, <<>>, canUseConditionals)
                  IN  /\ without.status = status
                      /\ status = "exported" => without.rules = rules
                      /\ (status = "exported" /\ known.status = "exported")
                            => Allowed(rules) \subseteq Allowed(known.rules)

\* an exported filter with a rule compiled after a dropped line, the dropped
\* line carrying a condition
C12_Witness ==
    /\ status = "exported" /\ canUseConditionals
    /\ \E i \in 1..Len(lines) :
          /\ lines[i] = ArgLine("nosys", "arg0", "A")
          /\ i < Len(lines) /\ lines[i + 1] = ArgLine("read", "arg0", "3")
    /\ Len(rules) >= 1

(***************************************************************************)
(* installBasicBlacklist                                                   *)
(***************************************************************************)
\* syscallBlacklist := []string{ ... }
basicBlacklist ==
    <<"syslog", "uselib", "personality", "acct", "modify_ldt", "quotactl",
      "move_pages", "mbind", "get_mempolicy", "set_mempolicy", "migrate_pages",
      "unshare", "mount", "pivot_root",
      "perf_event_open", "ptrace",
      "umount2", "kexec_load", "open_by_handle_at", "name_to_handle_at",
      "create_module", "init_module", "finit_module", "delete_module", "iopl",
      "ioperm", "ioprio_set", "swapon", "swapoff", "process_vm_readv",
      "process_vm_writev", "sysfs", "_sysctl", "adjtimex", "clock_adjtime",
      "lookup_dcookie", "fanotify_init", "kcmp", "add_key", "request_key",
      "keyctl", "io_setup", "io_destroy", "io_getevents", "io_submit",
      "io_cancel", "remap_file_pages", "vmsplice", "chroot", "tuxcall", "reboot",
      "nfsservctl", "get_kernel_syms">>

\* if runtime.GOARCH == "386" { syscallBlacklist = append(..., "vm86", "vm86old") }
syscallBlacklist(arch) ==
    IF arch = "386" THEN basicBlacklist \o <<"vm86", "vm86old">> ELSE basicBlacklist

\* system calls that are on no deny list
UnlistedSyscalls == <<"read", "futex", "clone">>

\* the native architecture's table of system calls: a call's id is its
\* position in the table
SyscallTable == basicBlacklist \o <<"vm86", "vm86old">> \o UnlistedSyscalls

SyscallId(name) == CHOOSE i \in 1..Len(SyscallTable) : SyscallTable[i] = name

\* actEPerm := seccomp.ActErrno.SetReturnCode(1)
actEPerm == "ERRNO"
\* seccomp.ActAllow
ActAllow == "ALLOW"

\* The loaded filter's verdict for system call nr: the action of a rule for
\* nr when there is one, otherwise the filter's default action.
FilterVerdict(default, rs, nr) ==
    IF \E i \in 1..Len(rs) : rs[i].scall = nr
    THEN rs[CHOOSE i \in 1..Len(rs) : rs[i].scall = nr].action
    ELSE default

\* One turn of `for _, n := range syscallBlacklist` with an unresolvable name
\* skipped instead of returned as an error.
BlacklistStepSkipUnknown(n, native, rs) ==
    IF n \notin native
    THEN [status |-> "adding", err |-> "", rules |-> rs, step |-> 1]
    ELSE [status |-> "adding", err |-> "",
          rules |-> Append(rs, [scall |-> SyscallId(n), action |-> actEPerm]),
          step |-> 1]

\* One turn of `for _, n := range syscallBlacklist`:
\*   s, err := seccomp.GetSyscallFromName(n); if err != nil { return err }
\*   f.AddRule(s, actEPerm)
BlacklistStep(n, native, rs) ==
    IF n \notin native
    THEN [status |-> "error", err |-> n, rules |-> rs, step |-> 0]
    ELSE [status |-> "adding", err |-> "",
          rules |-> Append(rs, [scall |-> SyscallId(n), action |-> actEPerm]),
          step |-> 1]

BlacklistRule ==
    /\ blStatus = "adding"
    /\ blIdx <= Len(syscallBlacklist(goarch))
    /\ LET r == BlacklistStep(syscallBlacklist(goarch)[blIdx], nativeSyscalls, blRules)
       IN  /\ blRules' = r.rules
           /\ blStatus' = r.status
           /\ blErr' = r.err
           /\ blIdx' = blIdx + r.step
    /\ UNCHANGED <<goarch, nativeSyscalls, blDefault>>
    /\ UNCHANGED otherThanBlacklist

\* return f.ExportBPF(fd)
BlacklistExport ==
    /\ blStatus = "adding"
    /\ blIdx > Len(syscallBlacklist(goarch))
    /\ blStatus' = "exported"
    /\ UNCHANGED <<goarch, nativeSyscalls, blDefault, blRules, blIdx, blErr>>
    /\ UNCHANGED otherThanBlacklist

\* the most names the native architecture fails to resolve
MaxUnknown == 2

\* the names that may be unresolvable: the first, a middle and the last name
\* of the list, a 386-only name, and names that are not listed
MaybeUnknown == {"syslog", "ptrace", "get_kernel_syms", "vm86old", "clone", "futex"}

InitBlacklist ==
    /\ goarch \in {"amd64", "386"}
    /\ \E u \in SUBSET MaybeUnknown :
          /\ Cardinality(u) <= MaxUnknown
          /\ nativeSyscalls = Range(SyscallTable) \ u
    /\ blDefault = ActAllow
    /\ blRules = <<>>
    /\ blIdx = 1
    /\ blStatus = "adding"
    /\ blErr = ""
    /\ SeccompIdle
    /\ CacheIdle
    /\ ResolveIdle

NextBlacklist ==
    \/ BlacklistRule
    \/ BlacklistExport

SpecBlacklist == InitBlacklist /\ [][NextBlacklist]_vars

(***************************************************************************)
(* Claims about the blacklist compiler                                     *)
(***************************************************************************)
Listed == Range(syscallBlacklist(goarch))

\* C11: an exported blacklist filter has default action ALLOW and answers
\* ERRNO for exactly the system calls of the deny list, one rule per name;
\* when a listed name cannot be resolved no filter is exported, and the
\* function returns an error only for a listed name that cannot be resolved.
C11_BlacklistDeniesExactlyTheList ==
    /\ blStatus = "exported" =>
          /\ blDefault = "ALLOW"
          /\ Len(blRules) = Len(syscallBlacklist(goarch))
          /\ \A i \in 1..Len(SyscallTable) :
                IF SyscallTable[i] \in Listed
                THEN FilterVerdict(blDefault, blRules, i) = "ERRNO"
                ELSE FilterVerdict(blDefault, blRules, i) = "ALLOW"
    /\ (\E n \in Listed : n \notin nativeSyscalls) => blStatus # "exported"
    /\ blStatus = "error" => (blErr \in Listed /\ blErr \notin nativeSyscalls)

\* a filter exported on 386, where the list has the two vm86 names, with an
\* unlisted name unresolvable
C11_Witness ==
    /\ blStatus = "exported" /\ goarch = "386"
    /\ "clone" \notin nativeSyscalls
    /\ Len(blRules) = Len(basicBlacklist) + 2

\* the function returned an error on the last name of the list
C11_ErrorReached ==
    blStatus = "error" /\ blErr = "get_kernel_syms" /\ Len(blRules) = Len(basicBlacklist) - 1

(***************************************************************************)
(* getNewLdCache and LoadCache (amd64)                                     *)
(***************************************************************************)
\* "ld.so-1.7.0\0"
cacheMagic == <<108, 100, 46, 115, 111, 45, 49, 46, 55, 46, 48, 0>>
\* "glibc-ld.so.cache1.1"
cacheMagicNew ==
    <<103, 108, 105, 98, 99, 45, 108, 100, 46, 115, 111, 46, 99, 97, 99, 104, 101,
      49, 46, 49>>

\* getNewLdCache: const entrySz = 4 + 4 + 4
oldEntrySz == 12
\* LoadCache: const entrySz = 4 + 4 + 4 + 4 + 8
entrySz == 24
\* nlibs, len_strings, unused[]: 2*4 + 5*4
newHeaderSz == 28

flagX8664Lib64 == 768
flagElfLibc6 == 3

\* b[n:] and b[:n] for 0 <= n <= len(b)
Drop(b, n) == SubSeq(b, n + 1, Len(b))
Take(b, n) == SubSeq(b, 1, n)

\* bytes.HasPrefix
HasPrefix(b, p) == Len(b) >= Len(p) /\ SubSeq(b, 1, Len(p)) = p

\* binary.LittleEndian.Uint32
Uint32(b) == b[1] + 256 * b[2] + 65536 * b[3] + 16777216 * b[4]

RECURSIVE BitAnd(_, _)
BitAnd(a, b) ==
    IF a = 0 \/ b = 0 THEN 0
    ELSE (IF a % 2 = 1 /\ b % 2 = 1 THEN 1 ELSE 0) + 2 * BitAnd(a \div 2, b \div 2)

\* getNewLdCache(b): the new-format part of the file, or an error
getNewLdCache(b) ==
    IF ~HasPrefix(b, cacheMagic)
    THEN [ok |-> FALSE, err |-> "invalid old_magic", b |-> <<>>]
    ELSE
      LET b1 == Drop(b, Len(cacheMagic))
      IN  IF Len(b1) < 4
          THEN [ok |-> FALSE, err |-> "truncated (nlibs)", b |-> <<>>]
          ELSE
            LET n == Uint32(b1)
                b2 == Drop(b1, 4)
                nSkip == oldEntrySz * n
            IN  IF Len(b2) < nSkip
                THEN [ok |-> FALSE, err |-> "truncated (libs[])", b |-> <<>>]
                ELSE
                  LET off == Len(cacheMagic) + 4 + nSkip
                      b3 == Drop(b2, nSkip)
                      padLen == ((off + 8 - 1) \div 8) * 8 - off
                  IN  IF Len(b3) < padLen
                      THEN [ok |-> FALSE, err |-> "truncated (pad)", b |-> <<>>]
                      ELSE [ok |-> TRUE, err |-> "", b |-> Drop(b3, padLen)]

\* LoadCache from the new magic to the lenStrings check.  rawLibs := b[:n]
\* faults when n exceeds the capacity of b; when n lies between the length
\* and the capacity the next statement, b = b[len(rawLibs):], faults: either
\* way the function panics when the entry array is longer than what is left.
ParseNewHeader(st) ==
    IF ~HasPrefix(st, cacheMagicNew)
    THEN [kind |-> "error", err |-> "invalid new_magic", nlibs |-> 0, rawLibs |-> <<>>]
    ELSE
      LET b1 == Drop(st, Len(cacheMagicNew))
      IN  IF Len(b1) < newHeaderSz
          THEN [kind |-> "error", err |-> "truncated (new header)",
                nlibs |-> 0, rawLibs |-> <<>>]
          ELSE
            LET n == Uint32(b1)
                lenStrings == Uint32(Drop(b1, 4))
                b2 == Drop(b1, 4 + 4 + 20)
            IN  IF n * entrySz > Len(b2)
                THEN [kind |-> "panic", err |-> "slice bounds out of range",
                      nlibs |-> n, rawLibs |-> <<>>]
                ELSE IF Len(Drop(b2, n * entrySz)) # lenStrings
                THEN [kind |-> "error", err |-> "lenStrings appears invalid",
                      nlibs |-> n, rawLibs |-> <<>>]
                ELSE [kind |-> "ok", err |-> "", nlibs |-> n,
                      rawLibs |-> Take(b2, n * entrySz)]

RECURSIVE IndexZero(_, _)
\* bytes.IndexByte(s, 0): 0-based index of the first NUL, -1 when there is none
IndexZero(s, i) ==
    IF i > Len(s) THEN -1
    ELSE IF s[i] = 0 THEN i - 1
    ELSE IndexZero(s, i + 1)

\* getString := func(idx int) (string, error)
getString(st, idx) ==
    IF idx < 0 \/ idx > Len(st)
    THEN [kind |-> "error", str |-> <<>>]
    ELSE
      LET l == IndexZero(Drop(st, idx), 1)
      IN  IF l = 0 THEN [kind |-> "ok", str |-> <<>>]
          ELSE IF idx + l < idx   \* stringTable[idx : idx+l] with l = -1
          THEN [kind |-> "panic", str |-> <<>>]
          ELSE [kind |-> "ok", str |-> SubSeq(st, idx + 1, idx + l)]

\* flagCheckFn of amd64: flags&wantFlags == flags
flagCheckFn(flags) == BitAnd(flags, flagX8664Lib64 + flagElfLibc6) = flags
\* capCheckFn of amd64
capCheckFn(hwcap) == TRUE

\* rawE := rawLibs[entrySz*i : entrySz*(i+1)], decoded
RawEntry(raw, i) ==
    LET rawE == SubSeq(raw, entrySz * i + 1, entrySz * (i + 1))
    IN  [flags |-> Uint32(rawE), kIdx |-> Uint32(Drop(rawE, 4)),
         vIdx |-> Uint32(Drop(rawE, 8)), osVersion |-> Uint32(Drop(rawE, 12)),
         hwcap |-> Drop(rawE, 16)]

\* b, _, err = getNewLdCache(b); stringTable := b
ReadOldFormat ==
    /\ cstatus = "loading" /\ cpc = "old"
    /\ LET r == getNewLdCache(file)
       IN  \/ /\ r.ok
              /\ stringTable' = r.b
              /\ cpc' = "new"
              /\ UNCHANGED <<cstatus, cerr>>
           \/ /\ ~r.ok
              /\ cstatus' = "error"
              /\ cerr' = r.err
              /\ UNCHANGED <<stringTable, cpc>>
    /\ UNCHANGED <<file, rawLibs, nlibs, libIdx, store>>
    /\ UNCHANGED otherThanCache

\* new_magic; nlibs, len_strings, unused[]; rawLibs; the lenStrings check
ReadNewHeader ==
    /\ cstatus = "loading" /\ cpc = "new"
    /\ LET r == ParseNewHeader(stringTable)
       IN  \/ /\ r.kind = "ok"
              /\ nlibs' = r.nlibs
              /\ rawLibs' = r.rawLibs
              /\ cpc' = "libs"
              /\ UNCHANGED <<cstatus, cerr>>
           \/ /\ r.kind # "ok"
              /\ cstatus' = r.kind
              /\ cerr' = r.err
              /\ UNCHANGED <<nlibs, rawLibs, cpc>>
    /\ UNCHANGED <<file, stringTable, libIdx, store>>
    /\ UNCHANGED otherThanCache

\* one turn of: for i := 0; i < nlibs; i++ { ... }
ReadEntry ==
    /\ cstatus = "loading" /\ cpc = "libs" /\ libIdx < nlibs
    /\ LET e == RawEntry(rawLibs, libIdx)
           k == getString(stringTable, e.kIdx)
           v == getString(stringTable, e.vIdx)
           ent == [key |-> k.str, value |-> v.str, flags |-> e.flags,
                   osVersion |-> e.osVersion, hwcap |-> e.hwcap]
       IN  \/ /\ k.kind # "ok"
              /\ cstatus' = k.kind
              /\ cerr' = IF k.kind = "panic" THEN "slice bounds out of range"
                                             ELSE "failed to query key"
              /\ UNCHANGED <<libIdx, store>>
           \/ /\ k.kind = "ok" /\ v.kind # "ok"
              /\ cstatus' = v.kind
              /\ cerr' = IF v.kind = "panic" THEN "slice bounds out of range"
                                             ELSE "failed to query value"
              /\ UNCHANGED <<libIdx, store>>
           \/ /\ k.kind = "ok" /\ v.kind = "ok"
              /\ flagCheckFn(e.flags) /\ capCheckFn(e.hwcap)
              /\ store' = [x \in DOMAIN store \cup {k.str} |->
                              IF x = k.str
                              THEN (IF x \in DOMAIN store THEN store[x] ELSE <<>>) \o <<ent>>
                              ELSE store[x]]
              /\ libIdx' = libIdx + 1
              /\ UNCHANGED <<cstatus, cerr>>
           \/ /\ k.kind = "ok" /\ v.kind = "ok"
              /\ ~(flagCheckFn(e.flags) /\ capCheckFn(e.hwcap))
              /\ libIdx' = libIdx + 1
              /\ UNCHANGED <<store, cstatus, cerr>>
    /\ UNCHANGED <<file, cpc, stringTable, rawLibs, nlibs>>
    /\ UNCHANGED otherThanCache

\* return c, nil
FinishLoad ==
    /\ cstatus = "loading" /\ cpc = "libs" /\ libIdx >= nlibs
    /\ cstatus' = "ok"
    /\ cpc' = "done"
    /\ UNCHANGED <<file, stringTable, rawLibs, nlibs, libIdx, store, cerr>>
    /\ UNCHANGED otherThanCache

(***************************************************************************)
(* The cache files LoadCache is run on                                     *)
(***************************************************************************)
MaxOldLibs == 1
MaxNewLibs == 2

Bytes32(n) == <<n % 256, (n \div 256) % 256, (n \div 65536) % 256, n \div 16777216>>
Zeros(n) == [i \in 1..n |-> 0]

RECURSIVE Concat(_)
Concat(ss) == IF ss = <<>> THEN <<>> ELSE Head(ss) \o Concat(Tail(ss))

\* the string table "a\0/b\0", and the same without its last NUL
Strings == <<97, 0, 47, 98, 0>>
StringsUnterminated == <<97, 0, 47, 98>>

\* the old-format part: magic, nlibs, libs[], pad to a multiple of 8
OldPart(nOld) ==
    LET off == Len(cacheMagic) + 4 + oldEntrySz * nOld
    IN  cacheMagic \o Bytes32(nOld) \o Zeros(oldEntrySz * nOld)
            \o Zeros(((off + 7) \div 8) * 8 - off)

NewEntry(e) == Bytes32(e.flags) \o Bytes32(e.kIdx) \o Bytes32(e.vIdx) \o Zeros(12)

\* the new-format part: magic, header, entries, strings
NewPart(es, strs) ==
    cacheMagicNew \o Bytes32(Len(es)) \o Bytes32(Len(strs)) \o Zeros(20)
        \o Concat([i \in 1..Len(es) |-> NewEntry(es[i])]) \o strs

\* where the strings of a new part with n entries start
StrBase(n) == Len(cacheMagicNew) + newHeaderSz + entrySz * n

\* the offsets an entry of a file with n entries and strings strs may carry:
\* "a", the NUL after it, "/b", the end of the buffer, one past it, the header
Offsets(n, strs) ==
    {StrBase(n), StrBase(n) + 1, StrBase(n) + 2,
     StrBase(n) + Len(strs), StrBase(n) + Len(strs) + 1, 0}

EntryChoices(n, strs) ==
    [flags : {flagX8664Lib64 + flagElfLibc6, 5},
     kIdx : Offsets(n, strs), vIdx : Offsets(n, strs)]

\* an entry naming "a" at "/b"
GoodEntry(n) ==
    [flags |-> flagX8664Lib64 + flagElfLibc6, kIdx |-> StrBase(n), vIdx |-> StrBase(n) + 2]

\* well-formed files: every entry names "a" at "/b"
WellFormedFiles ==
    { OldPart(o) \o NewPart([i \in 1..n |-> GoodEntry(n)], Strings) :
        o \in 0..MaxOldLibs, n \in 0..MaxNewLibs }

\* files whose last entry carries any of the offsets
OffsetFiles ==
    UNION { { OldPart(o) \o NewPart([i \in 1..n |-> IF i = n THEN e ELSE GoodEntry(n)], strs) :
                e \in EntryChoices(n, strs) } :
            o \in 0..MaxOldLibs, n \in 1..MaxNewLibs,
            strs \in {Strings, StringsUnterminated} }

\* every proper prefix of a well-formed file
TruncatedFiles ==
    UNION { { Take(f, k) : k \in 0..(Len(f) - 1) } : f \in WellFormedFiles }

\* a well-formed file with the first byte of one magic changed
BadMagicFiles ==
    UNION { LET f == OldPart(o) \o NewPart(<<GoodEntry(1)>>, Strings)
            IN  { [f EXCEPT ![1] = 0], [f EXCEPT ![Len(OldPart(o)) + 1] = 0] } :
            o \in 0..MaxOldLibs }

CacheFiles == WellFormedFiles \cup OffsetFiles \cup TruncatedFiles \cup BadMagicFiles

InitCache ==
    /\ file \in CacheFiles
    /\ cpc = "old"
    /\ stringTable = <<>>
    /\ rawLibs = <<>>
    /\ nlibs = 0
    /\ libIdx = 0
    /\ store = <<>>
    /\ cstatus = "loading"
    /\ cerr = ""
    /\ SeccompIdle
    /\ BlacklistIdle
    /\ ResolveIdle

NextCache ==
    \/ ReadOldFormat
    \/ ReadNewHeader
    \/ ReadEntry
    \/ FinishLoad

SpecCache == InitCache /\ [][NextCache]_vars

(***************************************************************************)
(* Claims about the cache reader                                           *)
(***************************************************************************)
\* offset idx lies in the buffer and a NUL ends the string that starts there
GoodOffset(st, idx) == idx < Len(st) /\ \E j \in (idx + 1)..Len(st) : st[j] = 0

EntryOffsetsGood(i) ==
    LET e == RawEntry(rawLibs, i)
    IN  GoodOffset(stringTable, e.kIdx) /\ GoodOffset(stringTable, e.vIdx)

\* C3: an entry whose name or path offset is out of the buffer (the buffer's
\* length included) or has no NUL after it makes LoadCache return an error:
\* the entry is never accepted and the libs[] loop never faults.
C3_BadOffsetFailsClosed ==
    /\ ~(cstatus = "panic" /\ cpc = "libs")
    /\ \A i \in 0..(nlibs - 1) :
          (cpc \in {"libs", "done"} /\ ~EntryOffsetsGood(i))
          => (libIdx <= i /\ cstatus \in {"loading", "error"})

\* C4: a file with a wrong old or new magic, or cut short anywhere, makes
\* getNewLdCache/LoadCache return an error; the header steps never fault.
C4_TruncationFailsClosed ==
    /\ ~(cstatus = "panic" /\ cpc \in {"old", "new"})
    /\ (file \in TruncatedFiles \cup BadMagicFiles) => cstatus \in {"loading", "error"}

(***************************************************************************)
(* Cache.GetLibraryPath and Cache.ResolveLibraries                         *)
(***************************************************************************)
\* the empty path ""
NoPath == <<>>

\* filepath.Join(d, lib)
JoinPath(d, lib) == d \o <<"/", lib>>

\* filepath.SplitList(ldLibraryPath)
SplitList(path) == IF path = <<>> THEN <<>> ELSE Split(path, <<":">>)

\* utils.FileExists
FileExists(path) == path \in fsFiles

\* GetLibraries(fn)
GetLibraries(fn) == elfImports[fn]

\* filepath.EvalSymlinks(fn)
EvalSymlinksNoFollow(fn) == [ok |-> TRUE, path |-> fn]
EvalSymlinks(fn) == fsLinks[fn]

\* Cache.GetLibraryPath
GetLibraryPath(name) ==
    IF name \notin DOMAIN store THEN NoPath ELSE store[name][1].value

RECURSIVE SearchPathLookup(_, _)
\* for _, d := range searchPaths { if utils.FileExists(maybePath) { ...; break } }
SearchPathLookup(lib, i) ==
    IF i > Len(searchPaths) THEN NoPath
    ELSE IF FileExists(JoinPath(searchPaths[i], lib)) THEN JoinPath(searchPaths[i], lib)
    ELSE SearchPathLookup(lib, i + 1)

\* if !inLdLibraryPath { libraries[lib] = libPath }
RegisterAlways(libs, lib, libPath, inLdLibraryPath) ==
    [n \in DOMAIN libs \cup {lib} |-> IF n = lib THEN libPath ELSE libs[n]]
Register(libs, lib, libPath, inLdLibraryPath) ==
    IF ~inLdLibraryPath
    THEN [n \in DOMAIN libs \cup {lib} |-> IF n = lib THEN libPath ELSE libs[n]]
    ELSE libs

\* if !checkedFile[libPath] { newToCheck[libPath] = true }
EnqueueFirstOnly(ntc, libPath, cf) ==
    IF libPath \notin cf /\ ntc = {} THEN ntc \cup {libPath} ELSE ntc
EnqueueInverted(ntc, libPath, cf) == IF libPath \in cf THEN ntc \cup {libPath} ELSE ntc
Enqueue(ntc, libPath, cf) == IF libPath \notin cf THEN ntc \cup {libPath} ELSE ntc

\* fmt.Errorf("dynlib: Failed to find library: %v", lib)
FailedToFindUnnamed(lib) == "Failed to find library"
FailedToFind(lib) == lib

\* checkedLib[lib] = true
MarkOnlyLib(cl, lib) == {lib}
MarkCheckedLib(cl, lib) == cl \cup {lib}

RECURSIVE ResolveImports(_, _, _, _)
\* for _, lib := range impLibs { ... }: acc holds checkedLib, libraries and
\* newToCheck, err names the library that was not found, and looked holds the
\* names c.GetLibraryPath was called with
ResolveImports(impLibs, i, cf, acc) ==
    IF i > Len(impLibs) THEN acc
    ELSE
      LET lib == impLibs[i]
          found == SearchPathLookup(lib, 1)
          inLdLibraryPath == found # NoPath
          libPath == IF inLdLibraryPath THEN found ELSE GetLibraryPath(lib)
      IN  IF lib \in acc.checkedLib THEN ResolveImports(impLibs, i + 1, cf, acc)
          ELSE IF libPath = NoPath
          THEN [acc EXCEPT !.err = FailedToFind(lib), !.looked = @ \cup {lib}]
          ELSE ResolveImports(impLibs, i + 1, cf,
                 [checkedLib |-> MarkCheckedLib(acc.checkedLib, lib),
                  libraries  |-> Register(acc.libraries, lib, libPath, inLdLibraryPath),
                  newToCheck |-> Enqueue(acc.newToCheck, libPath, cf),
                  err        |-> "",
                  looked     |-> IF inLdLibraryPath THEN acc.looked
                                 ELSE acc.looked \cup {lib}])

Nil == [nil |-> TRUE, libs |-> <<>>]
NonNil(libs) == [nil |-> FALSE, libs |-> libs]

\* one turn of: for _, fn := range toCheck { ... }
ScanFile ==
    /\ rstatus = "resolving" /\ pos <= Len(toCheck)
    /\ LET fn == toCheck[pos]
           imp == GetLibraries(fn)
           impLibs == imp.libs \o extraLibs.libs
           r == ResolveImports(impLibs, 1, checkedFile \cup {fn},
                               [checkedLib |-> checkedLib, libraries |-> libraries,
                                newToCheck |-> newToCheck, err |-> "",
                                looked |-> cacheLookups])
       IN  /\ scanCount' = [scanCount EXCEPT ![fn] = @ + 1]
           /\ \/ /\ ~imp.ok
                 /\ rstatus' = "error"
                 /\ rerr' = "GetLibraries"
                 /\ UNCHANGED <<checkedFile, extraLibs, checkedLib, libraries,
                                newToCheck, pos, cacheLookups>>
              \/ /\ imp.ok
                 /\ checkedFile' = checkedFile \cup {fn}
                 /\ extraLibs' = Nil
                 /\ checkedLib' = r.checkedLib
                 /\ libraries' = r.libraries
                 /\ newToCheck' = r.newToCheck
                 /\ cacheLookups' = r.looked
                 /\ \/ /\ r.err # ""
                       /\ rstatus' = "error"
                       /\ rerr' = r.err
                       /\ pos' = pos
                    \/ /\ r.err = ""
                       /\ pos' = pos + 1
                       /\ UNCHANGED <<rstatus, rerr>>
    /\ UNCHANGED <<binaries, extraLibsArg, elfImports, fsFiles, fsLinks, searchPaths,
                   toCheck, ret>>
    /\ UNCHANGED otherThanResolve

\* every sequence that lists the elements of S once each
Perms(S) ==
    {q \in [1..Cardinality(S) -> S] : \A i, j \in 1..Cardinality(S) : i # j => q[i] # q[j]}

\* toCheck = []string{}; for k, _ := range newToCheck { toCheck = append(toCheck, k) }
NextLevel ==
    /\ rstatus = "resolving" /\ pos > Len(toCheck) /\ Len(toCheck) # 0
    /\ \E order \in Perms(newToCheck) : toCheck' = order
    /\ newToCheck' = {}
    /\ pos' = 1
    /\ UNCHANGED <<binaries, extraLibsArg, elfImports, fsFiles, fsLinks, searchPaths,
                   extraLibs, libraries, checkedFile, checkedLib, ret, rstatus, rerr,
                   scanCount, cacheLookups>>
    /\ UNCHANGED otherThanResolve

\* if len(toCheck) == 0 { break }
EndLoop ==
    /\ rstatus = "resolving" /\ Len(toCheck) = 0
    /\ rstatus' = "dedup"
    /\ UNCHANGED <<binaries, extraLibsArg, elfImports, fsFiles, fsLinks, searchPaths,
                   extraLibs, libraries, checkedFile, checkedLib, toCheck, pos,
                   newToCheck, ret, rerr, scanCount, cacheLookups>>
    /\ UNCHANGED otherThanResolve

RECURSIVE DedupFold(_, _, _)
\* for lib, fn := range libraries { f, err := EvalSymlinks(fn); ret[f] = append(ret[f], lib) }
DedupFold(order, i, acc) ==
    IF i > Len(order) THEN [ok |-> TRUE, ret |-> acc]
    ELSE
      LET lib == order[i]
          f == EvalSymlinks(libraries[lib])
      IN  IF ~f.ok THEN [ok |-> FALSE, ret |-> <<>>]
          ELSE DedupFold(order, i + 1,
                 [c \in DOMAIN acc \cup {f.path} |->
                     IF c = f.path
                     THEN (IF c \in DOMAIN acc THEN acc[c] ELSE <<>>) \o <<lib>>
                     ELSE acc[c]])

\* the de-dup loop (in the map's iteration order) and the return
Dedup ==
    /\ rstatus = "dedup"
    /\ \E order \in Perms(DOMAIN libraries) :
          LET r == DedupFold(order, 1, <<>>)
          IN  \/ /\ r.ok
                 /\ ret' = r.ret
                 /\ rstatus' = "ok"
                 /\ UNCHANGED rerr
              \/ /\ ~r.ok
                 /\ rstatus' = "error"
                 /\ rerr' = "EvalSymlinks"
                 /\ UNCHANGED ret
    /\ UNCHANGED <<binaries, extraLibsArg, elfImports, fsFiles, fsLinks, searchPaths,
                   extraLibs, libraries, checkedFile, checkedLib, toCheck, pos,
                   newToCheck, scanCount, cacheLookups>>
    /\ UNCHANGED otherThanResolve

(***************************************************************************)
(* The binaries, libraries, cache and file system the resolver is run on   *)
(***************************************************************************)
MaxImports == 2

LibNames == <<"x", "y", "z">>

BinA == <<"/bin", "/", "a">>
BinB == <<"/bin", "/", "b">>
P1 == <<"/lib", "/", "p1">>
P2 == <<"/lib", "/", "p2">>
Dir1 == <<"/s1">>
Dir2 == <<"/s2">>
S1x == JoinPath(Dir1, "x")
S2x == JoinPath(Dir2, "x")

AllFiles == {BinA, BinB, P1, P2, S1x, S2x}

Imports(libs) == [ok |-> TRUE, libs |-> libs]
NotElf == [ok |-> FALSE, libs |-> <<>>]

RECURSIVE NamesAt(_, _)
\* the names at the indices ix of LibNames, in order
NamesAt(ix, i) ==
    IF i > Len(LibNames) THEN <<>>
    ELSE (IF i \in ix THEN <<LibNames[i]>> ELSE <<>>) \o NamesAt(ix, i + 1)

\* the import lists of at most MaxImports names
ImportLists ==
    { NamesAt(ix, 1) : ix \in {t \in SUBSET (1..Len(LibNames)) : Cardinality(t) <= MaxImports} }

CacheEntry(name, path) ==
    [key |-> name, value |-> path, flags |-> flagX8664Lib64 + flagElfLibc6,
     osVersion |-> 0, hwcap |-> <<0, 0, 0, 0, 0, 0, 0, 0>>]

\* a cache: x is absent or at P1; y is absent, at P1, or listed at P2 and then
\* at P1; z is at P2
Caches ==
    { [n \in {m \in {"x", "y", "z"} : (m = "x" => cx # <<>>) /\ (m = "y" => cy # <<>>)} |->
          LET ps == CASE n = "x" -> cx [] n = "y" -> cy [] OTHER -> <<P2>>
          IN  [i \in 1..Len(ps) |-> CacheEntry(n, ps[i])]] :
        cx \in {<<>>, <<P1>>}, cy \in {<<>>, <<P1>>, <<P2, P1>>} }

\* P2 is a regular file, a symbolic link to P1, or cannot be resolved
LinkTables ==
    { [f \in {BinA, BinB, P1, S1x, S2x} |-> [ok |-> TRUE, path |-> f]] @@ (P2 :> l) :
        l \in {[ok |-> TRUE, path |-> P2], [ok |-> TRUE, path |-> P1],
               [ok |-> FALSE, path |-> NoPath]} }

\* ldLibraryPath and the files present in its directories
SearchSetups ==
    { [path |-> <<>>, files |-> {}],
      [path |-> Dir1 \o <<":">> \o Dir2, files |-> {S2x}],
      [path |-> Dir1 \o <<":">> \o Dir2, files |-> {S1x, S2x}] }

\* the starting binaries and what the second one imports
BinarySetups ==
    { [bins |-> <<BinA>>, b |-> <<>>],
      [bins |-> <<BinA, BinB>>, b |-> <<>>],
      [bins |-> <<BinA, BinB>>, b |-> <<"y">>] }

ImportTable(a, b, p1, p2) ==
    (BinA :> Imports(a)) @@ (BinB :> Imports(b)) @@ (P1 :> p1) @@ (P2 :> p2)
        @@ (S1x :> Imports(<<"y">>)) @@ (S2x :> Imports(<<>>))

ResolveStart ==
    /\ searchPaths \in {SplitList(s.path) : s \in {t \in SearchSetups : t.files = fsFiles}}
    /\ extraLibs = extraLibsArg
    /\ libraries = <<>>
    /\ checkedFile = {}
    /\ checkedLib = {}
    /\ toCheck = binaries
    /\ pos = 1
    /\ newToCheck = {}
    /\ ret = <<>>
    /\ rstatus = "resolving"
    /\ rerr = ""
    /\ scanCount = [f \in AllFiles |-> 0]
    /\ cacheLookups = {}

InitResolve ==
    /\ \/ /\ \E bs \in BinarySetups, a \in ImportLists,
                p1 \in {Imports(<<>>), Imports(<<"z">>), Imports(<<"x">>)},
                p2 \in {Imports(<<>>), Imports(<<"x">>), NotElf} :
                /\ binaries = bs.bins
                /\ elfImports = ImportTable(a, bs.b, p1, p2)
          /\ extraLibsArg \in {Nil, NonNil(<<"z">>)}
          /\ store \in Caches
          /\ fsLinks \in LinkTables
          /\ fsFiles \in {t.files : t \in SearchSetups}
       \/ /\ binaries = <<>>
          /\ elfImports = ImportTable(<<>>, <<>>, Imports(<<>>), Imports(<<>>))
          /\ extraLibsArg \in {Nil, NonNil(<<"z">>)}
          /\ store \in Caches
          /\ fsLinks \in LinkTables
          /\ fsFiles = {}
    /\ ResolveStart
    /\ file = <<>> /\ cpc = "done" /\ stringTable = <<>> /\ rawLibs = <<>>
    /\ nlibs = 0 /\ libIdx = 0 /\ cstatus = "ok" /\ cerr = ""
    /\ SeccompIdle
    /\ BlacklistIdle

NextResolve ==
    \/ ScanFile
    \/ NextLevel
    \/ EndLoop
    \/ Dedup

SpecResolve == InitResolve /\ [][NextResolve]_vars

\* ResolveLibraries runs on one goroutine and never waits: a step that can
\* be taken is taken
\* of the file systems, those where P2 is a regular file or cannot be resolved
InitResolveFair == InitResolve /\ fsLinks[P2].path # P1

SpecResolveFair == InitResolveFair /\ [][NextResolve]_vars /\ WF_vars(NextResolve)

(***************************************************************************)
(* Claims about the resolver                                               *)
(***************************************************************************)
\* the path a name resolves to: the first search path hit, else the cache's
ResolvedPath(lib) ==
    LET found == SearchPathLookup(lib, 1)
    IN  IF found # NoPath THEN found ELSE GetLibraryPath(lib)

InSearchPath(lib) == \E i \in 1..Len(searchPaths) : JoinPath(searchPaths[i], lib) \in fsFiles

\* the names imported by the starting binaries or listed in extraLibs
RootNames ==
    UNION {Range(elfImports[binaries[i]].libs) : i \in 1..Len(binaries)}
        \cup Range(extraLibsArg.libs)

RECURSIVE NameClosure(_)
\* N with the imports of every file a name of N resolves to, transitively
NameClosure(N) ==
    LET more == UNION {Range(elfImports[ResolvedPath(n)].libs) :
                          n \in {m \in N : ResolvedPath(m) # NoPath}}
    IN  IF more \subseteq N THEN N ELSE NameClosure(N \cup more)

Aliases == UNION {Range(ret[c]) : c \in DOMAIN ret}

\* the files reached: the starting binaries and every file a reachable name
\* resolves to
ReachedFiles ==
    Range(binaries) \cup
        {ResolvedPath(n) : n \in {m \in NameClosure(RootNames) : ResolvedPath(m) # NoPath}}

\* C5: GetLibraries is never called twice for one path, and when resolution
\* succeeds it was called once for every file reached.
C5_EachFileScannedOnce ==
    /\ \A f \in DOMAIN scanCount : scanCount[f] <= 1
    /\ (rstatus = "ok" /\ binaries # <<>>) => \A f \in ReachedFiles : scanCount[f] = 1

\* C6: when ResolveLibraries succeeds for a non-empty list of binaries, every
\* reachable name is in a search path directory or is an alias of the result,
\* and every alias is a reachable name that is in no search path directory.
C6_ResultCoversClosure ==
    (rstatus = "ok" /\ binaries # <<>>)
    => /\ \A n \in NameClosure(RootNames) : InSearchPath(n) \/ n \in Aliases
       /\ \A a \in Aliases : a \in NameClosure(RootNames) /\ ~InSearchPath(a)

\* a success whose result has an alias imported only by a library (not by a
\* binary) while another reachable name sits in the search path
C6_Witness ==
    /\ rstatus = "ok" /\ binaries # <<>>
    /\ \E a \in Aliases :
          a \notin UNION {Range(elfImports[binaries[i]].libs) : i \in 1..Len(binaries)}
    /\ \E n \in NameClosure(RootNames) : InSearchPath(n)

\* the places (canonical path, index) where name a stands in the result
Places(a) ==
    UNION { { <<c, i>> : i \in {j \in 1..Len(ret[c]) : ret[c][j] = a} } : c \in DOMAIN ret }

\* C7: in a returned result every alias stands at exactly one place; the
\* canonical path it stands under is the symlink-resolved form of the path the
\* name resolved to; two aliases whose resolved paths have the same canonical
\* form stand under the same canonical path.
C7_AliasSetsAreConsistent ==
    rstatus = "ok" =>
        /\ \A a \in Aliases : Cardinality(Places(a)) = 1
        /\ \A c \in DOMAIN ret : \A i \in 1..Len(ret[c]) :
              LET l == fsLinks[ResolvedPath(ret[c][i])]
              IN  l.ok /\ l.path = c
        /\ \A a, b \in Aliases :
              fsLinks[ResolvedPath(a)].path = fsLinks[ResolvedPath(b)].path
              => \E c \in DOMAIN ret : {a, b} \subseteq Range(ret[c])

\* a success where a symbolic link merges two names that resolved to
\* different paths into one alias set
C7_Witness ==
    /\ rstatus = "ok"
    /\ \E c \in DOMAIN ret : \E a, b \in Range(ret[c]) :
          a # b /\ ResolvedPath(a) # ResolvedPath(b)

\* the file of name lib in the first search path directory that has one
FirstInSearchPath(lib) ==
    LET hits == {i \in 1..Len(searchPaths) : JoinPath(searchPaths[i], lib) \in fsFiles}
        first == CHOOSE i \in hits : \A j \in hits : i <= j
    IN  JoinPath(searchPaths[first], lib)

\* the files of name lib in the search path directories after the first hit
LaterInSearchPath(lib) ==
    ({JoinPath(searchPaths[i], lib) : i \in 1..Len(searchPaths)} \cap fsFiles)
        \ {FirstInSearchPath(lib)}

\* the files still to be scanned in this level or the next
Queued == {toCheck[i] : i \in pos..Len(toCheck)} \cup newToCheck

\* C13: for a name that exists as a file in a search path directory, the
\* cache is never asked and no error names it; the name is not in the
\* mapping; once the name is checked, the file of the first directory that
\* has it is scanned or queued for scanning (and scanned when resolution
\* succeeds), and no file of that name in a later directory ever is.
C13_SearchPathHitIsScannedNotMapped ==
    \A n \in Range(LibNames) :
        InSearchPath(n) =>
            /\ n \notin cacheLookups
            /\ rerr # n
            /\ n \notin DOMAIN libraries
            /\ n \notin Aliases
            /\ \A f \in LaterInSearchPath(n) : scanCount[f] = 0 /\ f \notin Queued
            /\ (n \in checkedLib /\ rstatus = "resolving")
                  => (scanCount[FirstInSearchPath(n)] >= 1 \/ FirstInSearchPath(n) \in Queued)
            /\ (n \in checkedLib /\ rstatus \in {"dedup", "ok"})
                  => scanCount[FirstInSearchPath(n)] >= 1

\* a success where x, absent from the cache, was found in the first of two
\* directories that have it, and the import y of the file found is an alias
C13_Witness ==
    /\ rstatus = "ok"
    /\ "x" \in checkedLib /\ "x" \notin DOMAIN store
    /\ fsFiles = {S1x, S2x}
    /\ scanCount[S1x] = 1
    /\ "y" \in Aliases /\ "y" \notin RootNames

\* the reachable names found neither in the search path nor in the cache
Missing == {n \in NameClosure(RootNames) : ResolvedPath(n) = NoPath}

\* GetLibraries succeeds on every file reached
ExtractionOk == \A f \in ReachedFiles : elfImports[f].ok

\* EvalSymlinks succeeds on the path of every reachable name that is not in
\* the search path
LinksOk ==
    \A n \in NameClosure(RootNames) :
        (~InSearchPath(n) /\ ResolvedPath(n) # NoPath) => fsLinks[ResolvedPath(n)].ok

C14_SuccessReached ==
    /\ rstatus = "ok" /\ Missing = {} /\ ExtractionOk /\ LinksOk
    /\ DOMAIN ret # {} /\ \E n \in NameClosure(RootNames) : InSearchPath(n)

\* ResolveLibraries has returned
Returned == rstatus \in {"ok", "error"}

\* C15: every call of ResolveLibraries returns, with a mapping or an error,
\* also when the import graph has cycles; the set of checked library names
\* never loses a name.
C15_ResolveLibrariesTerminates ==
    /\ <>Returned
    /\ [][checkedLib \subseteq checkedLib']_vars

\* a call that returned a mapping for an import graph with a library that
\* imports itself (x is at P1, which imports x)
C15_Witness ==
    /\ rstatus = "ok"
    /\ \E n \in checkedLib :
          /\ ResolvedPath(n) # NoPath
          /\ n \in Range(elfImports[ResolvedPath(n)].libs)
          /\ scanCount[ResolvedPath(n)] >= 1

\* a call that returned a mapping for an import graph where two libraries
\* import each other (x at /s1/x imports y, y at P1 imports x)
C15_TwoCycleReached ==
    /\ rstatus = "ok"
    /\ \E n, m \in checkedLib :
          /\ n # m /\ ResolvedPath(n) # NoPath /\ ResolvedPath(m) # NoPath
          /\ ResolvedPath(n) # ResolvedPath(m)
          /\ m \in Range(elfImports[ResolvedPath(n)].libs)
          /\ n \in Range(elfImports[ResolvedPath(m)].libs)

\* the names whose resolution the call is asked for: none when there is no
\* binary to scan
Wanted == IF binaries = <<>> THEN {} ELSE NameClosure(RootNames)

\* the outcome as the arguments, the cache and the file system alone fix it
ExpectedOk ==
    \A n \in Wanted :
        /\ ResolvedPath(n) # NoPath
        /\ elfImports[ResolvedPath(n)].ok
        /\ ~InSearchPath(n) => fsLinks[ResolvedPath(n)].ok

ExpectedAliases(c) ==
    {n \in Wanted : ~InSearchPath(n) /\ fsLinks[ResolvedPath(n)].path = c}

ExpectedPaths == {fsLinks[ResolvedPath(n)].path : n \in {m \in Wanted : ~InSearchPath(m)}}

\* C16: whatever the order in which the files of a level are scanned and the
\* maps are iterated, a call that has returned succeeded exactly when the
\* arguments, cache and file system allow it, and on success its mapping is
\* the one they fix, alias sets compared as sets: two runs on the same inputs
\* cannot differ in outcome.
C16_OutcomeIndependentOfOrder ==
    Returned =>
        /\ rstatus = "ok" <=> ExpectedOk
        /\ rstatus = "ok" =>
              /\ DOMAIN ret = ExpectedPaths
              /\ \A c \in DOMAIN ret : Range(ret[c]) = ExpectedAliases(c)
        /\ rstatus = "error" => ret = <<>>

\* a success of a run in which the scan order showed: a file of one level
\* was queued again by a file scanned before it, and the mapping has two
\* aliases
C16_Witness ==
    /\ rstatus = "ok"
    /\ \E f \in DOMAIN scanCount : scanCount[f] = 2
    /\ Cardinality(Aliases) >= 2

====
